---- MODULE Spec2Model ----
(***************************************************************************)
(* Model of src/startracker/startracker.py: the StarTrackerServer worker   *)
(* loop (star_tracker), the property getters served to D-Bus clients       *)
(* (coor, filepath), start() and end(), and the StarTracker operations the *)
(* loop calls (capture, preprocess, solve, error).                         *)
(*                                                                         *)
(* Python semantics that matter here:                                      *)
(*  - threading.Lock is not re-entrant and is not released when the thread *)
(*    that holds it dies from an uncaught exception;                       *)
(*  - a name that is neither a local nor a module global raises NameError  *)
(*    when it is evaluated (p_solve at lines 334 and 344);                 *)
(*  - None has no attribute shape (preprocess, line 119).                  *)
(***************************************************************************)
EXTENDS Integers, Sequences, FiniteSets, TLC

\* ------------------------------------------------------------------ bounds
\* number of concurrent D-Bus clients reading properties
NumReaders == 1
\* the wall clock counts backoff intervals and saturates at MaxTime
MaxTime == 2
\* largest height and width of the frames preprocess is tried on
MaxSide == 3

Readers == 1..NumReaders

\* --------------------------------------------------------------- constants
\* P_MATCH_THRESH = 0.99, in hundredths
P_MATCH_THRESH == 99
\* beast.cvar.REQUIRED_STARS, read from the calibration file
REQUIRED_STARS == 5
\* blur < 5 : cutoff on the variance of the Laplacian
BLUR_CUTOFF == 5
\* 1 - 0.99996744 and 1 - 0.99918619, in units of 10^-8
BLUR_COMPLEMENT == 3256
TOO_MANY_COMPLEMENT == 81381
SCALE == 100000000

VARIABLES
    SAMPLE_DIR,   \* StarTracker.SAMPLE_DIR
    MEDIAN_IMAGE, \* StarTracker.MEDIAN_IMAGE: "None" or "image"
    C_DB,         \* StarTracker.S_DB / SQ_RESULTS / C_DB: "None" or "loaded"
    dec, ra, ori, \* StarTrackerServer.dec / ra / ori
    l_solve,      \* StarTrackerServer.l_solve
    t_solve,      \* StarTrackerServer.t_solve
    p_solve,      \* StarTrackerServer.p_solve
    st_lock,      \* StarTrackerServer.st_lock: "free", "worker" or "reader"
    st_running,   \* StarTrackerServer.st_running
    wpc,          \* position of the worker thread in star_tracker
    img,          \* local img of star_tracker
    check,        \* local check of star_tracker
    exc,          \* the uncaught exception that ended the worker, or "none"
    mpc,          \* position of the main thread in start() / end()
    rpc,          \* position of each reader inside a getter
    rloc,         \* the getter's locals (dec, ra, ori, t_solve, p_solve)
    now,          \* time.time(), in backoff intervals
    emitted,      \* signals emitted by the worker in the current iteration
    iter_rec,     \* (dec, ra, ori, t_solve) when the current iteration began
    solver_calls, \* calls of st.solve in the current iteration
    stamps,       \* executions of line 350 in the current iteration
    published,    \* every (dec, ra, ori, t_solve) completed at line 350
    engine,       \* lis and near of the solve call that has just returned
    stop_at,      \* where the worker was when end() asked it to stop:
                  \* "sleep", "while", or "iteration" for lines 326-354
    max_ret,      \* largest t_solve a coor read has returned so far
    rfloor,       \* per reader: max_ret when its current coor read started
    last_pub      \* (dec, ra, ori, t_solve, p_solve) of the last frame whose
                  \* solve was completed at line 350

vars == <<SAMPLE_DIR, MEDIAN_IMAGE, C_DB, dec, ra, ori, l_solve, t_solve, p_solve, st_lock,
          st_running, wpc, img, check, exc, mpc, rpc, rloc, now, emitted,
          iter_rec, solver_calls, stamps, published, engine, stop_at,
          max_ret, rfloor, last_pub>>

\* ------------------------------------------------------------------ frames
\* A frame is described by what preprocess measures on it: its shape, the
\* number of pixels at or below the binarization cutoff (80) and the
\* variance of its Laplacian.  none marks Python's None.
NoneImg == [none |-> TRUE, height |-> 0, width |-> 0, black |-> 0, blur |-> 0]

Frame(h, w, b, v) ==
    [none |-> FALSE, height |-> h, width |-> w, black |-> b, blur |-> v]

\* the files of the sample directory
Samples ==
    { [path |-> "dark.png",   img |-> Frame(100, 100, 10000, 0)],
      [path |-> "smear.png",  img |-> Frame(100, 100, 10000, 3)],
      [path |-> "stars.png",  img |-> Frame(100, 100, 9995, 40)],
      [path |-> "bright.png", img |-> Frame(100, 100, 0, 90)] }

SampleDirs == {"None", "samples/"}

\* ----------------------------------------------------------- StarTracker
\* capture(): the set of (path, image) pairs it can return
Capture(sample_dir) ==
    IF sample_dir # "None"
    THEN { <<s.path, s.img>> : s \in Samples }
    ELSE { <<"None", NoneImg>> }

\* int(total_pixels * (1 - c * 10^-8)) for total_pixels >= 0
IntScaled(total_pixels, c) ==
    total_pixels - ((total_pixels * c + SCALE - 1) \div SCALE)

\* preprocess without the test blur != 0 of line 134
Preprocess_blurzero(i) ==
    IF i.none THEN "AttributeError"
    ELSE LET total_pixels == i.height * i.width
             blur_check == IntScaled(total_pixels, BLUR_COMPLEMENT)
             too_many_check == IntScaled(total_pixels, TOO_MANY_COMPLEMENT)
             threshold_black == i.black
         IN  IF threshold_black > blur_check
             THEN IF i.blur < BLUR_CUTOFF
                  THEN "image too blurry"
                  ELSE "image contains too few stars"
             ELSE IF threshold_black < too_many_check
                  THEN "unsuitable image"
                  ELSE "good"

\* preprocess(img): the verdict, or the exception it raises
Preprocess(i) ==
    IF i.none THEN "AttributeError"
    ELSE LET total_pixels == i.height * i.width
             blur_check == IntScaled(total_pixels, BLUR_COMPLEMENT)
             too_many_check == IntScaled(total_pixels, TOO_MANY_COMPLEMENT)
             threshold_black == i.black
         IN  IF threshold_black > blur_check
             THEN IF i.blur # 0 /\ i.blur < BLUR_CUTOFF
                  THEN "image too blurry"
                  ELSE "image contains too few stars"
             ELSE IF threshold_black < too_many_check
                  THEN "unsuitable image"
                  ELSE "good"

\* what the astrometry engine can answer for one frame: the coarse match
\* (lis), the refined match (near) and the angles of the refined winner
PMatches == {P_MATCH_THRESH, P_MATCH_THRESH + 1}
WinnerSizes == {REQUIRED_STARS - 1, REQUIRED_STARS}
WinnerAngles == { <<0, 0, 0>>, <<1, 0, 0>>, <<0, 1, 1>> }

EngineAnswers ==
    [lis_p : PMatches, lis_size : WinnerSizes, near_p : PMatches,
     angles : WinnerAngles]

\* no solve call has just returned
NoAnswer == [lis_p |-> 0, lis_size |-> 0, near_p |-> 0, angles |-> <<0, 0, 0>>]

\* solve that takes the coarse match when the refined match fails
Solve_coarse_only(e) ==
    LET coarse == e.lis_p > P_MATCH_THRESH /\ e.lis_size >= REQUIRED_STARS
    IN  IF coarse
        THEN <<e.angles[1], e.angles[2], e.angles[3], "module time">>
        ELSE <<0, 0, 0, "module time">>

\* solve(orig_img): the tuple it returns; the fourth element is the module
\* time, not the measured runtime
Solve(e) ==
    LET coarse == e.lis_p > P_MATCH_THRESH /\ e.lis_size >= REQUIRED_STARS
        matched == coarse /\ e.near_p > P_MATCH_THRESH
    IN  IF matched
        THEN <<e.angles[1], e.angles[2], e.angles[3], "module time">>
        ELSE <<0, 0, 0, "module time">>

\* -------------------------------------------------------------------- Init
\* StarTracker.__init__ and StarTrackerServer.__init__
Init ==
    /\ SAMPLE_DIR = "None"
    /\ MEDIAN_IMAGE = "None"
    /\ C_DB = "None"
    /\ dec = 0 /\ ra = 0 /\ ori = 0
    /\ l_solve = "0.0"
    /\ t_solve = 0
    /\ p_solve = ""
    /\ st_lock = "free"
    /\ st_running = TRUE
    /\ wpc = "not_started"
    /\ img = NoneImg
    /\ check = "unset"
    /\ exc = "none"
    /\ mpc = "init"
    /\ rpc = [r \in Readers |-> "idle"]
    /\ rloc = [r \in Readers |-> <<0, 0, 0, 0, "">>]
    /\ now = 1
    /\ emitted = <<>>
    /\ iter_rec = <<0, 0, 0, 0>>
    /\ solver_calls = 0
    /\ stamps = 0
    /\ published = {}
    /\ engine = NoAnswer
    /\ stop_at = "none"
    /\ max_ret = 0
    /\ rfloor = [r \in Readers |-> 0]
    /\ last_pub = <<0, 0, 0, 0, "">>

record == <<dec, ra, ori, t_solve>>

store_vars == <<dec, ra, ori, l_solve, t_solve, p_solve>>
reader_vars == <<rpc, rloc>>
ghost_vars == <<emitted, iter_rec, solver_calls, stamps, published>>
worker_locals == <<img, check, exc>>
startup_vars == <<SAMPLE_DIR, MEDIAN_IMAGE, C_DB>>
aux_vars == <<engine, stop_at, max_ret, rfloor, last_pub>>

\* ------------------------------------------------------------ main thread
\* what cv2.imread(median_path) returns: None when the file cannot be read
MedianImages == {"None", "image"}

\* how the engine's loading calls of lines 68-78 end: they return, or they
\* raise and the exception leaves startup() and start()
EngineLoads == {"loaded", "raises"}

\* start(), lines 369-377: startup() stores the sample directory and the
\* median image; unless a loading call raises, the worker thread is started
\* and the object is published on the bus
Start ==
    /\ mpc = "init"
    /\ \E d \in SampleDirs : SAMPLE_DIR' = d
    /\ \E m \in MedianImages : MEDIAN_IMAGE' = m
    /\ \E l \in EngineLoads :
          IF l = "loaded"
          THEN /\ C_DB' = "loaded"
               /\ wpc' = "while"
               /\ mpc' = "serving"
          ELSE /\ C_DB' = "None"
               /\ wpc' = wpc
               /\ mpc' = "aborted"
    /\ UNCHANGED <<aux_vars, store_vars, st_lock, st_running,
                   worker_locals, reader_vars, now, ghost_vars>>

\* end(), line 397: the stop request
End ==
    /\ mpc = "serving"
    /\ st_running' = FALSE
    /\ mpc' = "joining"
    /\ stop_at' = IF wpc \in {"sleep", "while"} THEN wpc ELSE "iteration"
    /\ UNCHANGED <<startup_vars, engine, max_ret, rfloor, last_pub,
                   store_vars, st_lock, wpc, worker_locals,
                   reader_vars, now, ghost_vars>>

WorkerAlive == wpc \notin {"not_started", "done", "dead"}

\* end(), lines 398-399: join returns once the worker thread has ended
EndJoin ==
    /\ mpc = "joining"
    /\ ~WorkerAlive
    /\ mpc' = "ended"
    /\ UNCHANGED <<startup_vars, aux_vars,
                   store_vars, st_lock, st_running, wpc,
                   worker_locals, reader_vars, now, ghost_vars>>

\* ---------------------------------------------------------- worker thread
\* WorkerWhile that does not look at st_running (while True)
WorkerWhile_nostop ==
    /\ wpc = "while"
    /\ wpc' = "acquire"
    /\ emitted' = <<>>
    /\ iter_rec' = record
    /\ solver_calls' = 0
    /\ stamps' = 0
    /\ UNCHANGED <<startup_vars, aux_vars,
                   store_vars, st_lock, st_running,
                   worker_locals, mpc, reader_vars, now, published>>

\* line 323: while (self.st_running)
WorkerWhile ==
    /\ wpc = "while"
    /\ wpc' = IF st_running THEN "acquire" ELSE "done"
    /\ emitted' = <<>>
    /\ iter_rec' = record
    /\ solver_calls' = 0
    /\ stamps' = 0
    /\ UNCHANGED <<startup_vars, aux_vars,
                   store_vars, st_lock, st_running,
                   worker_locals, mpc, reader_vars, now, published>>

\* WorkerAcquire with the acquire placed after the capture, so that the
\* capture runs without st_lock
WorkerAcquire_late ==
    /\ wpc = "acquire"
    /\ wpc' = "capture"
    /\ UNCHANGED <<startup_vars, aux_vars,
                   store_vars, st_lock, st_running, worker_locals, mpc,
                   reader_vars, now, ghost_vars>>

\* line 326: self.st_lock.acquire()
WorkerAcquire ==
    /\ wpc = "acquire"
    /\ st_lock = "free"
    /\ st_lock' = "worker"
    /\ wpc' = "capture"
    /\ UNCHANGED <<startup_vars, aux_vars,
                   store_vars, st_running, worker_locals, mpc,
                   reader_vars, now, ghost_vars>>

\* line 327: self.p_solve, img = self.st.capture()
WorkerCapture ==
    /\ wpc = "capture"
    /\ \E c \in Capture(SAMPLE_DIR) :
          /\ p_solve' = c[1]
          /\ img' = c[2]
    /\ wpc' = "preprocess"
    /\ UNCHANGED <<startup_vars, aux_vars,
                   dec, ra, ori, l_solve, t_solve, st_lock,
                   st_running, check, exc, mpc, reader_vars, now,
                   ghost_vars>>

\* line 331: check = self.st.preprocess(img); img.shape raises on None and
\* the exception ends the thread, which still owns st_lock
WorkerPreprocess ==
    /\ wpc = "preprocess"
    /\ LET v == Preprocess(img)
       IN  IF v = "AttributeError"
           THEN /\ exc' = v
                /\ wpc' = "dead"
                /\ check' = check
           ELSE /\ check' = v
                /\ wpc' = "check"
                /\ exc' = exc
    /\ UNCHANGED <<startup_vars, aux_vars,
                   store_vars, st_lock, st_running, img, mpc,
                   reader_vars, now, ghost_vars>>

\* WorkerCheck without the rejected branch: every frame is handed to solve
WorkerCheck_fallthrough ==
    /\ wpc = "check"
    /\ wpc' = "solve"
    /\ UNCHANGED <<startup_vars, aux_vars,
                   store_vars, st_lock, st_running,
                   worker_locals, mpc, reader_vars, now, ghost_vars>>

\* lines 332-333: if check != "good": self.st.error(check).  StarTracker.error
\* calls modify(), which changes nothing and returns 0.
WorkerCheck ==
    /\ wpc = "check"
    /\ wpc' = IF check # "good" THEN "reject_log" ELSE "solve"
    /\ UNCHANGED <<startup_vars, aux_vars,
                   store_vars, st_lock, st_running,
                   worker_locals, mpc, reader_vars, now, ghost_vars>>

\* line 334: logger.warning(check + "(for {})".format(p_solve)) evaluates the
\* undefined name p_solve: NameError ends the thread.  Lines 335-337
\* (error(check), time.sleep(0.5), continue) are never executed.
WorkerRejectLog ==
    /\ wpc = "reject_log"
    /\ exc' = "NameError"
    /\ wpc' = "dead"
    /\ UNCHANGED <<startup_vars, aux_vars,
                   store_vars, st_lock, st_running, img, check,
                   mpc, reader_vars, now, ghost_vars>>

\* line 340: self.dec, self.ra, self.ori, self.l_solve = self.st.solve(img).
\* Inside solve, line 165 subtracts MEDIAN_IMAGE from the frame: with
\* MEDIAN_IMAGE None that raises TypeError before anything is assigned.
WorkerSolve ==
    /\ wpc = "solve"
    /\ solver_calls' = solver_calls + 1
    /\ IF MEDIAN_IMAGE = "None"
       THEN /\ exc' = "TypeError"
            /\ wpc' = "dead"
            /\ UNCHANGED <<dec, ra, ori, l_solve, engine>>
       ELSE /\ \E e \in EngineAnswers :
                  LET s == Solve(e)
                  IN  /\ dec' = s[1]
                      /\ ra' = s[2]
                      /\ ori' = s[3]
                      /\ l_solve' = s[4]
                      /\ engine' = e
            /\ wpc' = "solve_check"
            /\ exc' = exc
    /\ UNCHANGED <<startup_vars, stop_at, max_ret, rfloor, last_pub,
                   t_solve, p_solve, st_lock, st_running, img, check,
                   mpc, reader_vars, now, emitted, iter_rec,
                   stamps, published>>

\* lines 342-343: if self.dec == self.ra == self.ori == 0.0:
\*                    self.st.error("bad solve")
WorkerSolveCheck ==
    /\ wpc = "solve_check"
    /\ wpc' = IF dec = ra /\ ra = ori /\ ori = 0 THEN "fail_log"
              ELSE "timestamp"
    /\ engine' = NoAnswer
    /\ UNCHANGED <<startup_vars, stop_at, max_ret, rfloor, last_pub,
                   store_vars, st_lock, st_running,
                   worker_locals, mpc, reader_vars, now, ghost_vars>>

\* WorkerFailLog with the timestamp of line 350 taken before the bad-solve
\* branch is left
WorkerFailLog_stamp ==
    /\ wpc = "fail_log"
    /\ t_solve' = now
    /\ exc' = "NameError"
    /\ wpc' = "dead"
    /\ UNCHANGED <<startup_vars, aux_vars,
                   dec, ra, ori, l_solve, p_solve, st_lock, st_running,
                   img, check, mpc, reader_vars, now, ghost_vars>>

\* line 344: logger.error("bad solve (for {})".format(p_solve)): NameError
\* again.  Lines 345-347 are never executed.
WorkerFailLog ==
    /\ wpc = "fail_log"
    /\ exc' = "NameError"
    /\ wpc' = "dead"
    /\ UNCHANGED <<startup_vars, aux_vars,
                   store_vars, st_lock, st_running, img, check,
                   mpc, reader_vars, now, ghost_vars>>

\* WorkerTimestamp that stores the clock in a field too narrow for it
WorkerTimestamp_wrapped ==
    /\ wpc = "timestamp"
    /\ t_solve' = now % 2
    /\ published' = published \cup {<<dec, ra, ori, now % 2>>}
    /\ last_pub' = <<dec, ra, ori, now % 2, p_solve>>
    /\ stamps' = stamps + 1
    /\ wpc' = "release"
    /\ UNCHANGED <<startup_vars, engine, stop_at, max_ret, rfloor,
                   dec, ra, ori, l_solve, p_solve, st_lock,
                   st_running, worker_locals, mpc, reader_vars, now,
                   emitted, iter_rec, solver_calls>>

\* line 350: self.t_solve = time.time()
WorkerTimestamp ==
    /\ wpc = "timestamp"
    /\ t_solve' = now
    /\ published' = published \cup {<<dec, ra, ori, now>>}
    /\ last_pub' = <<dec, ra, ori, now, p_solve>>
    /\ stamps' = stamps + 1
    /\ wpc' = "release"
    /\ UNCHANGED <<startup_vars, engine, stop_at, max_ret, rfloor,
                   dec, ra, ori, l_solve, p_solve, st_lock,
                   st_running, worker_locals, mpc, reader_vars, now,
                   emitted, iter_rec, solver_calls>>

\* WorkerRelease with the release forgotten
WorkerRelease_skip ==
    /\ wpc = "release"
    /\ wpc' = "notify"
    /\ UNCHANGED <<startup_vars, aux_vars,
                   store_vars, st_lock, st_running,
                   worker_locals, mpc, reader_vars, now, ghost_vars>>

\* line 351: self.st_lock.release()
WorkerRelease ==
    /\ wpc = "release"
    /\ st_lock' = "free"
    /\ wpc' = "notify"
    /\ UNCHANGED <<startup_vars, aux_vars,
                   store_vars, st_running, worker_locals, mpc,
                   reader_vars, now, ghost_vars>>

\* WorkerNotify with the signal left commented out, as at lines 328 and 341
WorkerNotify_silent ==
    /\ wpc = "notify"
    /\ wpc' = "sleep"
    /\ UNCHANGED <<startup_vars, aux_vars,
                   store_vars, st_lock, st_running,
                   worker_locals, mpc, reader_vars, now, ghost_vars>>

\* line 354: self.PropertiesChanged(self.interface_name,
\*                                  {"filepath": self.p_solve}, [])
WorkerNotify ==
    /\ wpc = "notify"
    /\ emitted' = Append(emitted, [signal |-> "PropertiesChanged",
                                   arg |-> p_solve])
    /\ wpc' = "sleep"
    /\ UNCHANGED <<startup_vars, aux_vars,
                   store_vars, st_lock, st_running,
                   worker_locals, mpc, reader_vars, now, iter_rec,
                   solver_calls, stamps, published>>

\* line 355: time.sleep(0.5); the clock moves on by one backoff interval
WorkerSleep ==
    /\ wpc = "sleep"
    /\ now' = IF now < MaxTime THEN now + 1 ELSE now
    /\ wpc' = "while"
    /\ UNCHANGED <<startup_vars, aux_vars,
                   store_vars, st_lock, st_running,
                   worker_locals, mpc, reader_vars, ghost_vars>>

Worker ==
    \/ WorkerWhile \/ WorkerAcquire \/ WorkerCapture \/ WorkerPreprocess
    \/ WorkerCheck \/ WorkerRejectLog \/ WorkerSolve \/ WorkerSolveCheck
    \/ WorkerFailLog \/ WorkerTimestamp \/ WorkerRelease \/ WorkerNotify
    \/ WorkerSleep

\* ----------------------------------------------------------------- readers
\* a D-Bus client reads the property coor or filepath
ReaderCall(r) ==
    /\ mpc = "serving"
    /\ rpc[r] = "idle"
    /\ \E g \in {"coor_acquire", "filepath_acquire"} :
          rpc' = [rpc EXCEPT ![r] = g]
    /\ rloc' = [rloc EXCEPT ![r] = <<0, 0, 0, 0, "">>]
    /\ rfloor' = [rfloor EXCEPT ![r] =
                    IF rpc'[r] = "coor_acquire" THEN max_ret ELSE 0]
    /\ UNCHANGED <<startup_vars, engine, stop_at, max_ret, last_pub,
                   store_vars, st_lock, st_running, wpc,
                   worker_locals, mpc, now, ghost_vars>>

\* ReaderAcquire that does not wait for st_lock
ReaderAcquire_nolock(r) ==
    /\ rpc[r] \in {"coor_acquire", "filepath_acquire"}
    /\ rpc' = [rpc EXCEPT ![r] = IF rpc[r] = "coor_acquire"
                                 THEN "coor_dec" ELSE "filepath_read"]
    /\ UNCHANGED <<startup_vars, aux_vars,
                   store_vars, st_lock, st_running, wpc,
                   worker_locals, mpc, rloc, now, ghost_vars>>

\* lines 408 and 416: self.st_lock.acquire()
ReaderAcquire(r) ==
    /\ rpc[r] \in {"coor_acquire", "filepath_acquire"}
    /\ st_lock = "free"
    /\ st_lock' = "reader"
    /\ rpc' = [rpc EXCEPT ![r] = IF rpc[r] = "coor_acquire"
                                 THEN "coor_dec" ELSE "filepath_read"]
    /\ UNCHANGED <<startup_vars, aux_vars,
                   store_vars, st_running, wpc, worker_locals,
                   mpc, rloc, now, ghost_vars>>

\* line 409: the right-hand side self.dec, self.ra, self.ori, self.t_solve
\* is four attribute loads, one after the other
ReaderCoorLoad(r) ==
    /\ rpc[r] \in {"coor_dec", "coor_ra", "coor_ori", "coor_t_solve"}
    /\ rloc' = [rloc EXCEPT ![r] =
                  CASE rpc[r] = "coor_dec" -> [@ EXCEPT ![1] = dec]
                    [] rpc[r] = "coor_ra" -> [@ EXCEPT ![2] = ra]
                    [] rpc[r] = "coor_ori" -> [@ EXCEPT ![3] = ori]
                    [] rpc[r] = "coor_t_solve" -> [@ EXCEPT ![4] = t_solve]]
    /\ rpc' = [rpc EXCEPT ![r] =
                  CASE rpc[r] = "coor_dec" -> "coor_ra"
                    [] rpc[r] = "coor_ra" -> "coor_ori"
                    [] rpc[r] = "coor_ori" -> "coor_t_solve"
                    [] rpc[r] = "coor_t_solve" -> "coor_release"]
    /\ UNCHANGED <<startup_vars, aux_vars,
                   store_vars, st_lock, st_running, wpc,
                   worker_locals, mpc, now, ghost_vars>>

\* line 417: p_solve = self.p_solve
ReaderFilepathLoad(r) ==
    /\ rpc[r] = "filepath_read"
    /\ rloc' = [rloc EXCEPT ![r] = [@ EXCEPT ![5] = p_solve]]
    /\ rpc' = [rpc EXCEPT ![r] = "filepath_release"]
    /\ UNCHANGED <<startup_vars, aux_vars,
                   store_vars, st_lock, st_running, wpc,
                   worker_locals, mpc, now, ghost_vars>>

\* lines 410 and 418: self.st_lock.release()
ReaderRelease(r) ==
    /\ rpc[r] \in {"coor_release", "filepath_release"}
    /\ st_lock' = "free"
    /\ rpc' = [rpc EXCEPT ![r] = IF rpc[r] = "coor_release"
                                 THEN "coor_return" ELSE "filepath_return"]
    /\ UNCHANGED <<startup_vars, aux_vars,
                   store_vars, st_running, wpc, worker_locals,
                   mpc, rloc, now, ghost_vars>>

\* lines 411 and 419: return; the value returned is in rloc[r], and the
\* getter's locals end with the call
ReaderReturn(r) ==
    /\ rpc[r] \in {"coor_return", "filepath_return"}
    /\ rpc' = [rpc EXCEPT ![r] = "idle"]
    /\ rloc' = [rloc EXCEPT ![r] = <<0, 0, 0, 0, "">>]
    /\ max_ret' = IF rpc[r] = "coor_return" /\ rloc[r][4] > max_ret
                  THEN rloc[r][4] ELSE max_ret
    /\ rfloor' = [rfloor EXCEPT ![r] = 0]
    /\ UNCHANGED <<startup_vars, engine, stop_at, last_pub,
                   store_vars, st_lock, st_running, wpc,
                   worker_locals, mpc, now, ghost_vars>>

Reader(r) ==
    \/ ReaderCall(r) \/ ReaderAcquire(r) \/ ReaderCoorLoad(r)
    \/ ReaderFilepathLoad(r) \/ ReaderRelease(r) \/ ReaderReturn(r)

\* ------------------------------------------------------ last_solve getter
\* last_solve is a property of the Python object only: the bus interface
\* (lines 277-291) declares coor and filepath.  A caller inside the process
\* reads it.
LastSolveCall(r) ==
    /\ mpc = "serving"
    /\ rpc[r] = "idle"
    /\ rpc' = [rpc EXCEPT ![r] = "last_solve_acquire"]
    /\ UNCHANGED <<startup_vars, aux_vars,
                   store_vars, st_lock, st_running, wpc,
                   worker_locals, mpc, rloc, now, ghost_vars>>

\* line 424: self.st_lock.acquire()
LastSolveAcquire(r) ==
    /\ rpc[r] = "last_solve_acquire"
    /\ st_lock = "free"
    /\ st_lock' = "reader"
    /\ rpc' = [rpc EXCEPT ![r] = "last_solve_p_solve"]
    /\ UNCHANGED <<startup_vars, aux_vars,
                   store_vars, st_running, wpc, worker_locals,
                   mpc, rloc, now, ghost_vars>>

\* line 425: p_solve = p_solve reads the local p_solve before it is bound:
\* UnboundLocalError leaves the getter; lines 426-428, the release among
\* them, are not executed
LastSolveRaise(r) ==
    /\ rpc[r] = "last_solve_p_solve"
    /\ rpc' = [rpc EXCEPT ![r] = "idle"]
    /\ UNCHANGED <<startup_vars, aux_vars,
                   store_vars, st_lock, st_running, wpc,
                   worker_locals, mpc, rloc, now, ghost_vars>>

LastSolve(r) ==
    \/ LastSolveCall(r) \/ LastSolveAcquire(r) \/ LastSolveRaise(r)

\* ---------------------------------------------------------- specification
Next ==
    \/ Start \/ End \/ EndJoin
    \/ Worker
    \/ \E r \in Readers : Reader(r)

Spec == Init /\ [][Next]_vars

\* Scheduling: a runnable thread is eventually run, and a thread waiting for
\* st_lock gets it if the lock is free again and again.  Client requests and
\* the stop request are not forced.
Fairness ==
    /\ WF_vars(Worker)
    /\ SF_vars(WorkerAcquire)
    /\ WF_vars(EndJoin)
    /\ \A r \in Readers :
          /\ SF_vars(ReaderAcquire(r))
          /\ WF_vars(ReaderCoorLoad(r) \/ ReaderFilepathLoad(r)
                     \/ ReaderRelease(r) \/ ReaderReturn(r))

FairSpec == Spec /\ Fairness

\* the program with callers of last_solve inside the process
LocalNext ==
    \/ Next
    \/ \E r \in Readers : LastSolve(r)

LocalSpec == Init /\ [][LocalNext]_vars

\* ------------------------------------------------- preprocess on its own
\* frames of every shape up to MaxSide x MaxSide with every count of dark
\* pixels, and 100 x 100 frames around the two bounds
Blurs == {0, 3, BLUR_CUTOFF}

SmallFrames ==
    UNION { { Frame(h, w, b, v) : b \in 0..(h * w), v \in Blurs } :
              h \in 1..MaxSide, w \in 1..MaxSide }

BigFrames ==
    { Frame(100, 100, b, v) : b \in {0, 9990, 9991, 9999, 10000},
                              v \in Blurs }

TestFrames == SmallFrames \cup BigFrames

\* the worker is about to call preprocess (line 331) on a frame
ClassifyInit ==
    /\ SAMPLE_DIR = "samples/"
    /\ MEDIAN_IMAGE = "image"
    /\ C_DB = "loaded"
    /\ dec = 0 /\ ra = 0 /\ ori = 0
    /\ l_solve = "0.0"
    /\ t_solve = 0
    /\ p_solve = "frame.png"
    /\ st_lock = "worker"
    /\ st_running = TRUE
    /\ wpc = "preprocess"
    /\ img \in TestFrames
    /\ check = "unset"
    /\ exc = "none"
    /\ mpc = "serving"
    /\ rpc = [r \in Readers |-> "idle"]
    /\ rloc = [r \in Readers |-> <<0, 0, 0, 0, "">>]
    /\ now = 1
    /\ emitted = <<>>
    /\ iter_rec = <<0, 0, 0, 0>>
    /\ solver_calls = 0
    /\ stamps = 0
    /\ published = {}
    /\ engine = NoAnswer
    /\ stop_at = "none"
    /\ max_ret = 0
    /\ rfloor = [r \in Readers |-> 0]
    /\ last_pub = <<0, 0, 0, 0, "">>

ClassifySpec == ClassifyInit /\ [][WorkerPreprocess]_vars

\* ------------------------------------------------------------- properties
InitialRecord == <<0, 0, 0, 0>>

\* the tuple a coor getter is about to return
CoorValue(r) == <<rloc[r][1], rloc[r][2], rloc[r][3], rloc[r][4]>>

\* the signals of one kind emitted in the current iteration
Emitted(kind) == { i \in 1..Len(emitted) : emitted[i].signal = kind }

\* the worker is past the verdict of an iteration whose frame was rejected
RejectedIteration ==
    /\ check \notin {"good", "unset"}
    /\ wpc \notin {"not_started", "while", "acquire", "capture",
                   "preprocess"}

\* the rejected iteration is over (it ended with the thread)
RejectedDone == wpc = "dead" /\ exc = "NameError" /\ check # "good"

\* the worker is past the test of line 342 in an iteration whose solve
\* returned the invalid result
FailedIteration ==
    \/ wpc = "fail_log"
    \/ wpc = "dead" /\ exc = "NameError" /\ check = "good"

FailedDone == wpc = "dead" /\ exc = "NameError" /\ check = "good"

\* C1: every tuple returned by the coor getter is the initial record or the
\* four values written by one successful iteration of the worker loop.
C1_CoorNeverMixed ==
    \A r \in Readers :
        rpc[r] = "coor_return" =>
            CoorValue(r) \in published \cup {InitialRecord}

\* a coor getter returns a record that the worker published
C1_Witness ==
    \E r \in Readers : rpc[r] = "coor_return" /\ CoorValue(r) \in published

\* C2: under fair scheduling every coor or filepath read that has started
\* returns, whatever the worker loop is doing.
C2_ReadsReturn ==
    \A r \in Readers :
        (rpc[r] \in {"coor_acquire", "filepath_acquire"})
            ~> (rpc[r] \in {"coor_return", "filepath_return"})

\* C3: while no stop is requested, after a rejected frame or a failed solve
\* the worker loop eventually calls capture again.
C3_LoopContinues ==
    (RejectedIteration \/ FailedIteration)
        ~> (wpc = "capture" \/ ~st_running)

\* C4: when capture returns no image the worker goes to its backoff sleep
\* with the solution fields unchanged and the solver not run; it does not end.
C4_NoFrameBacksOff ==
    [][(wpc = "preprocess" /\ img.none /\ wpc' # wpc) =>
          /\ wpc' = "sleep"
          /\ record' = iter_rec
          /\ solver_calls' = 0]_vars

\* C5: while the worker executes capture, preprocess or solve it does not
\* hold st_lock.
C5_LockOnlyAroundReplacement ==
    wpc \in {"capture", "preprocess", "solve"} => st_lock # "worker"

\* C6: whenever the worker is in a backoff sleep it does not hold st_lock.
\* The only sleep the worker reaches is the one of line 355: the sleeps of
\* lines 336 and 346 come after the NameError of lines 334 and 344.
C6_SleepOutsideLock ==
    wpc = "sleep" => st_lock # "worker"

\* the worker sleeps after a publish
C6_Witness == wpc = "sleep" /\ stamps = 1 /\ record \in published

\* C7: an iteration whose frame is rejected leaves dec, ra, ori and t_solve
\* as they were when it began and does not call the solver.
C7_RejectLeavesStore ==
    RejectedIteration => record = iter_rec /\ solver_calls = 0

\* a frame is rejected after an earlier frame was solved and published
C7_Witness == RejectedDone /\ record \in published

\* C8: an iteration whose solve is invalid leaves dec, ra, ori and t_solve as
\* they were when it began.
C8_FailedSolveLeavesStore ==
    FailedIteration => record = iter_rec

\* C9: PropertiesChanged is emitted exactly once in an iteration that
\* completes the record update of line 350, and in no other iteration.
C9_ChangeNotificationOnPublish ==
    /\ stamps \in {0, 1}
    /\ Cardinality(Emitted("PropertiesChanged")) <= stamps
    /\ wpc \in {"sleep", "while", "done", "dead"} =>
          Cardinality(Emitted("PropertiesChanged")) = stamps
    /\ (RejectedIteration \/ FailedIteration) =>
          Emitted("PropertiesChanged") = {}

\* the iteration has published and emitted its notification
C9_Witness ==
    /\ wpc = "sleep"
    /\ stamps = 1
    /\ emitted = <<[signal |-> "PropertiesChanged", arg |-> p_solve]>>

\* C10: a rejected iteration emits error(verdict) and a failed one emits
\* error("bad solve").
C10_ErrorSignalOnRejectAndFail ==
    /\ RejectedDone =>
          \E i \in Emitted("error") : emitted[i].arg = check
    /\ FailedDone =>
          \E i \in Emitted("error") : emitted[i].arg = "bad solve"

\* the engine's answer passes both stages: lis clears the bar with enough
\* matched stars and near clears the bar
Accepted(e) ==
    /\ e.lis_p > P_MATCH_THRESH
    /\ e.lis_size >= REQUIRED_STARS
    /\ e.near_p > P_MATCH_THRESH

\* C11: when solve accepted a match, the worker goes on to the timestamp
\* update of line 350, also when the angles of the match are (0, 0, 0).
C11_ZeroSolutionPublished ==
    [][(wpc = "solve_check" /\ Accepted(engine) /\ wpc' # wpc) =>
          wpc' = "timestamp"]_vars

\* C12: a coor read returns a t_solve at least as large as every t_solve
\* returned by a read that had returned before this read started.
C12_MonotoneTimestamp ==
    \A r \in Readers :
        rpc[r] = "coor_return" => rloc[r][4] >= rfloor[r]

\* a read that follows a read of a published record returns a later record
C12_Witness ==
    \E r \in Readers :
        rpc[r] = "coor_return" /\ rfloor[r] > 0 /\ rloc[r][4] > rfloor[r]

\* C13: after a stop request made during the backoff sleep the worker only
\* leaves the sleep and the loop: no capture, no write of the record or of
\* p_solve, no further signal.
C13_StopDuringSleep ==
    [][stop_at = "sleep" =>
          /\ wpc' \in {"sleep", "while", "done"}
          /\ <<record, p_solve>>' = <<record, p_solve>>
          /\ Len(emitted') <= Len(emitted)]_vars

\* the worker was stopped in its sleep and has left the loop
C13_Witness == stop_at = "sleep" /\ wpc = "done" /\ record \in published

\* C14: after a stop request the worker thread ends and join returns; the
\* loop test taken after the request starts no iteration; an ended thread
\* stays ended.
C14_StopEndsLoop ==
    /\ (~st_running) ~> (~WorkerAlive /\ mpc = "ended")
    /\ [][(~st_running /\ wpc = "while") => wpc' \in {"while", "done"}]_vars
    /\ [][(wpc \in {"done", "dead"}) => (wpc' = wpc)]_vars

\* the stop came in the middle of an iteration, which was completed
C14_Witness ==
    mpc = "ended" /\ wpc = "done" /\ stop_at = "iteration" /\ t_solve > 0

\* C15: from a Rejected or Failed transition on, the worker writes none of
\* dec, ra, ori, t_solve, p_solve (it never reaches the end of a backoff
\* sleep: the thread ends at line 334 or 344).
C15_NoWriteBeforeBackoff ==
    [][(RejectedIteration \/ FailedIteration) =>
          <<dec, ra, ori, t_solve, p_solve>>'
              = <<dec, ra, ori, t_solve, p_solve>>]_vars

\* a solve has failed after an earlier publish
C15_Witness == FailedDone /\ published # {} /\ stamps = 0

\* C16: the worker thread runs only if the median image and the engine's
\* databases were loaded.
C16_AllOrNothing ==
    wpc # "not_started" => MEDIAN_IMAGE = "image" /\ C_DB = "loaded"

\* preprocess has returned its verdict on a frame with the given number of
\* dark pixels
Classified(black) ==
    wpc = "check" /\ ~img.none /\ img.black = black

\* C17: a frame of any size whose pixels are all dark and whose Laplacian
\* variance is zero is classified "image contains too few stars".
C17_DarkIsTooFewStars ==
    (Classified(img.height * img.width) /\ img.blur = 0) =>
        check = "image contains too few stars"

\* a dark zero-variance frame of more than one pixel has been classified
C17_Witness ==
    /\ Classified(img.height * img.width)
    /\ img.blur = 0
    /\ img.height * img.width > 1
    /\ check = "image contains too few stars"

\* C18: a frame of any size with no dark pixel is classified "unsuitable
\* image".
C18_BrightIsUnsuitable ==
    Classified(0) => check = "unsuitable image"

\* C19: when no getter call is in progress, no reader holds st_lock.
C19_ReadersReleaseLock ==
    (\A r \in Readers : rpc[r] = "idle") => st_lock # "reader"

\* C20: solve returns the angles of the refined match when the coarse match
\* clears the bar with enough stars and the refined match clears the bar,
\* and (0, 0, 0) in every other case; it raises only for want of the median
\* image, not because a frame does not match.
C20_TwoStageSolve ==
    /\ wpc = "solve_check" =>
          <<dec, ra, ori>> = IF Accepted(engine) THEN engine.angles
                             ELSE <<0, 0, 0>>
    /\ (wpc = "dead" /\ exc = "TypeError") => MEDIAN_IMAGE = "None"

\* the coarse match was accepted, the refined one was not, and solve has
\* returned the invalid result
C20_Witness ==
    /\ wpc = "solve_check"
    /\ engine.lis_p > P_MATCH_THRESH
    /\ engine.lis_size >= REQUIRED_STARS
    /\ engine.near_p <= P_MATCH_THRESH
    /\ engine.angles # <<0, 0, 0>>
    /\ <<dec, ra, ori>> = <<0, 0, 0>>

\* C21: whenever st_lock is free, p_solve names the frame whose successful
\* solve produced the stored dec, ra, ori and t_solve, or the five fields
\* still have their initial values.
C21_FilepathGoesWithCoor ==
    st_lock = "free" =>
        /\ <<dec, ra, ori, t_solve, p_solve>> = last_pub
        /\ record \in published \/ last_pub = <<0, 0, 0, 0, "">>

\* the record of a solved frame and its path can be read
C21_Witness ==
    /\ st_lock = "free"
    /\ record \in published
    /\ p_solve = last_pub[5]
    /\ p_solve \in { s.path : s \in Samples }

====
